---- MODULE Spec2Model ----
(***************************************************************************)
(* A model of the card-collection resolver of mtcg: the edit-distance      *)
(* scorer (fuzzy.ts), the cards table with its bulk import, and the        *)
(* search_cards, list_decks and get_deck_cards query paths (db.ts,         *)
(* server.ts), the CSV parser (csv.ts), and the Scryfall client with its   *)
(* throttle and the scryfall_* tools (scryfall.ts, server.ts).             *)
(*                                                                         *)
(* Strings are sequences of one-character strings, so that LIKE, the       *)
(* lower-casing and the Levenshtein rows work on characters as the code    *)
(* does.  A table row keeps the columns the queries read or return         *)
(* (binder_name, binder_type, name, set_name, quantity, scryfall_id); the  *)
(* other columns are payload no query of the model looks at.               *)
(***************************************************************************)
EXTENDS Integers, Sequences, FiniteSets, TLC

VARIABLES
  cards,   \* the cards table: the rows in rowid (insertion) order
  phase,   \* "created" | "ready" | "responded": where the process is
  call,    \* the search_cards request being answered, or NoCall
  rank,    \* SpecRank: one application of findClosestMatches
  dist,    \* SpecDistance: computeLevenshteinDistance applied both ways round
  txn,     \* SpecImport: the import transaction in flight, or the last one
  obs,     \* SpecImport: what another connection last read from the table
  served,  \* SpecResolver, SpecTool: the number of requests answered so far
  csv,     \* SpecCsv: one application of parseCollectionCSV
  net,     \* SpecThrottle: the clock, lastRequestTime and the throttledFetch calls
  tool     \* SpecTool: the scryfall_* request being answered, or NoTool

vars == <<cards, phase, call, rank, dist, txn, obs, served, csv, net, tool>>

----------------------------------------------------------------------------
(* Bounds *)

\* the largest number of records one import carries
MaxCards == 2

\* the largest limit a search is called with (the smallest is -1)
MaxLimit == 2

\* the longest candidate list findClosestMatches is applied to in SpecRank
MaxCandidates == 3

\* the number of requests the server answers in SpecResolver and SpecTool
MaxCalls == 2

\* the number of throttledFetch calls made in SpecThrottle
MaxFetchCalls == 3

\* the number of short steps the clock of SpecThrottle makes before and after
\* its one long step
MaxTicks == 3

\* the largest number of lines of a CSV file in SpecCsv
MaxLines == 3

\* the longest string computeLevenshteinDistance is applied to in SpecDistance
\* (the known vector kitten/sitting is added to these)
MaxStrLen == 3

----------------------------------------------------------------------------
(* Characters and strings *)

Range(s) == {s[i] : i \in DOMAIN s}

Min2(a, b) == IF a <= b THEN a ELSE b

Max2(a, b) == IF a >= b THEN a ELSE b

Min3(a, b, c) == Min2(a, Min2(b, c))

\* the code unit of a character (ASCII), for the BINARY collation
CharCode(c) ==
  CASE c = "%" -> 37
    [] c = "A" -> 65
    [] c = "B" -> 66
    [] c = "_" -> 95
    [] c = "a" -> 97
    [] c = "b" -> 98

\* String.prototype.toLowerCase on one character; SQLite's LIKE folds ASCII
\* letters the same way
ToLowerChar(c) ==
  CASE c = "A" -> "a"
    [] c = "B" -> "b"
    [] OTHER -> c

\* faulty variant: no case folding
toLowerCaseIdentity(s) == s

toLowerCase(s) == [i \in 1..Len(s) |-> ToLowerChar(s[i])]

\* memcmp order of two strings (SQLite's default BINARY collation): a < b
RECURSIVE BinaryLess(_, _)
BinaryLess(a, b) ==
  IF Len(b) = 0 THEN FALSE
  ELSE IF Len(a) = 0 THEN TRUE
  ELSE IF CharCode(Head(a)) # CharCode(Head(b))
       THEN CharCode(Head(a)) < CharCode(Head(b))
  ELSE BinaryLess(Tail(a), Tail(b))

----------------------------------------------------------------------------
(* fuzzy.ts *)

\* faulty variant: a deletion costs 2
RECURSIVE LevRowCostlyDeletion(_, _, _, _, _)
LevRowCostlyDeletion(left, right, i, prev, curr) ==
  LET j == Len(curr) IN
  IF j > Len(right) THEN curr
  ELSE LET cost == IF left[i] = right[j] THEN 0 ELSE 1
           v == Min3(prev[j + 1] + 2, curr[j] + 1, prev[j] + cost)
       IN LevRowCostlyDeletion(left, right, i, prev, Append(curr, v))

\* one pass of the inner loop: curr holds curr[0..j-1] and is extended to
\* curr[0..right.length]
RECURSIVE LevRow(_, _, _, _, _)
LevRow(left, right, i, prev, curr) ==
  LET j == Len(curr) IN
  IF j > Len(right) THEN curr
  ELSE LET cost == IF left[i] = right[j] THEN 0 ELSE 1
           v == Min3(prev[j + 1] + 1, curr[j] + 1, prev[j] + cost)
       IN LevRow(left, right, i, prev, Append(curr, v))

\* the outer loop over i = 1..left.length with the two rows swapped
RECURSIVE LevRows(_, _, _, _)
LevRows(left, right, i, prev) ==
  IF i > Len(left) THEN prev
  ELSE LevRows(left, right, i + 1, LevRow(left, right, i, prev, <<i>>))

computeLevenshteinDistance(a, b) ==
  LET left == toLowerCase(a)
      right == toLowerCase(b)
  IN IF left = right THEN 0
     ELSE IF Len(left) = 0 THEN Len(right)
     ELSE IF Len(right) = 0 THEN Len(left)
     ELSE LevRows(left, right, 1, [j \in 1..(Len(right) + 1) |-> j - 1])[Len(right) + 1]

\* faulty variant: candidates farther than one edit from the query are dropped
ScoredWithinThreshold(query, candidates) ==
  SelectSeq([i \in 1..Len(candidates) |->
               [value |-> candidates[i],
                distance |-> computeLevenshteinDistance(query, candidates[i])]],
            LAMBDA x : x.distance <= 1)

\* candidates.map(candidate => ({value, distance}))
Scored(query, candidates) ==
  [i \in 1..Len(candidates) |->
     [value |-> candidates[i],
      distance |-> computeLevenshteinDistance(query, candidates[i])]]

\* faulty variant: the comparator with its operands swapped (descending sort)
CompareScoredReversed(a, b) == b.distance - a.distance

\* the comparator of scored.sort: negative when a sorts before b
CompareScored(a, b) == a.distance - b.distance

\* faulty variant: x goes in front of the elements it ties with (an unstable
\* sort)
RECURSIVE InsertScoredBeforeTies(_, _)
InsertScoredBeforeTies(sorted, x) ==
  IF Len(sorted) = 0 THEN <<x>>
  ELSE IF CompareScored(x, Head(sorted)) <= 0 THEN <<x>> \o sorted
  ELSE <<Head(sorted)>> \o InsertScoredBeforeTies(Tail(sorted), x)

\* x put into an already sorted list behind every element that does not sort
\* after it (Array.prototype.sort is stable)
RECURSIVE InsertScored(_, _)
InsertScored(sorted, x) ==
  IF Len(sorted) = 0 THEN <<x>>
  ELSE IF CompareScored(x, Head(sorted)) < 0 THEN <<x>> \o sorted
  ELSE <<Head(sorted)>> \o InsertScored(Tail(sorted), x)

RECURSIVE SortScoredFrom(_, _, _)
SortScoredFrom(scored, i, acc) ==
  IF i > Len(scored) THEN acc
  ELSE SortScoredFrom(scored, i + 1, InsertScored(acc, scored[i]))

SortScored(scored) == SortScoredFrom(scored, 1, <<>>)

\* faulty variant: no slice, every scored candidate is kept
SliceWhole(seq, end) == seq

\* Array.prototype.slice(0, end): a negative end counts from the end
SliceFromStart(seq, end) ==
  LET k == IF end < 0 THEN Max2(Len(seq) + end, 0) ELSE Min2(end, Len(seq))
  IN SubSeq(seq, 1, k)

findClosestMatches(query, candidates, maxResults) ==
  LET top == SliceFromStart(SortScored(Scored(query, candidates)), maxResults)
  IN [i \in 1..Len(top) |-> top[i].value]

----------------------------------------------------------------------------
(* db.ts: the cards table and its queries *)

\* binderType left out of a call (undefined)
NoType == "none"

BinderTypes == {"binder", "deck"}

\* the card names, set names and queries the model draws from
NameSet == {<<"a", "b">>, <<"a", "_">>, <<"B">>}

SetNameSet == {<<"a">>, <<"b">>}

QuerySet ==
  {<<>>, <<"a">>, <<"b">>, <<"_">>, <<"%">>, <<"a", "b">>, <<"A", "B">>,
   <<"a", "_">>, <<"b", "a">>}

Limits == (0 - 1)..MaxLimit

\* a parsed Card as importCards receives it (the columns the queries use)
CardUniverse ==
  {[binder_name |-> IF t = "deck" THEN "Zurgo" ELSE "Boxed",
    binder_type |-> t, name |-> n, set_name |-> s,
    quantity |-> 1, scryfall_id |-> "sid"] :
     n \in NameSet, t \in BinderTypes, s \in SetNameSet}

RECURSIVE SeqsUpTo(_, _)
SeqsUpTo(S, n) ==
  IF n = 0 THEN {<<>>}
  ELSE LET shorter == SeqsUpTo(S, n - 1)
       IN shorter \cup {Append(q, x) : q \in {r \in shorter : Len(r) = n - 1}, x \in S}

\* every order a result set without ORDER BY may come back in
Orderings(S) ==
  {s \in [1..Cardinality(S) -> S] : \A i, j \in 1..Cardinality(S) : i # j => s[i] # s[j]}

\* faulty variant: nothing is deleted, the import only adds rows
dropNothing(table) == table

\* drop.run(): DELETE FROM cards
drop(table) == <<>>

\* the CHECK constraint of the binder_type column, which an INSERT must pass
insertAccepts(card) == card.binder_type \in BinderTypes

\* insert.run(...): a new row with the next rowid
insert(table, card) == Append(table, card)

\* for (const card of cards) insert.run(...), from the i-th card on
RECURSIVE insertAll(_, _, _)
insertAll(table, records, i) ==
  IF i > Len(records) THEN table
  ELSE insertAll(insert(table, records[i]), records, i + 1)

\* faulty variant: no transaction, every statement commits by itself
autocommit(committed, work) == work

\* db.transaction: the statements of runImport write to the transaction's own
\* view (work); other connections keep reading the committed table until COMMIT
transaction(committed, work) == committed

\* runImport(cards) run to its COMMIT: DELETE FROM cards, then one INSERT per
\* card, in one transaction
importCards(table, records) == insertAll(drop(table), records, 1)

\* `%${query}%`
likePattern(query) == <<"%">> \o query \o <<"%">>

\* SQLite's LIKE: % matches any run of characters, _ any one character, and
\* any other character matches itself with ASCII case folded
RECURSIVE LikeMatch(_, _)
LikeMatch(pattern, str) ==
  IF Len(pattern) = 0 THEN Len(str) = 0
  ELSE IF Head(pattern) = "%"
       THEN \/ LikeMatch(Tail(pattern), str)
            \/ Len(str) > 0 /\ LikeMatch(pattern, Tail(str))
  ELSE IF Len(str) = 0 THEN FALSE
  ELSE IF Head(pattern) = "_" THEN LikeMatch(Tail(pattern), Tail(str))
  ELSE /\ ToLowerChar(Head(pattern)) = ToLowerChar(Head(str))
       /\ LikeMatch(Tail(pattern), Tail(str))

\* SELECT DISTINCT name FROM cards WHERE name LIKE ?1
DistinctNamesLike(table, pattern) ==
  {table[i].name : i \in {k \in DOMAIN table : LikeMatch(pattern, table[k].name)}}

\* SELECT DISTINCT name FROM cards WHERE name LIKE ?1 AND binder_type = ?2
DistinctNamesLikeOfType(table, pattern, binderType) ==
  {table[i].name :
     i \in {k \in DOMAIN table : /\ LikeMatch(pattern, table[k].name)
                                 /\ table[k].binder_type = binderType}}

\* SELECT DISTINCT name FROM cards
DistinctNames(table) == {table[i].name : i \in DOMAIN table}

\* SELECT DISTINCT name FROM cards WHERE binder_type = ?1
DistinctNamesOfType(table, binderType) ==
  {table[i].name : i \in {k \in DOMAIN table : table[k].binder_type = binderType}}

\* faulty variant: only the first placeholder of the IN list is bound
NameInListFirstOnly(row, matchedNames) ==
  Len(matchedNames) > 0 /\ matchedNames[1] = row.name

\* name IN (?, ..., ?)
NameInList(row, matchedNames) == \E k \in DOMAIN matchedNames : matchedNames[k] = row.name

\* faulty variant: the binder_type condition is left out of the final SELECT
FetchWhereAnyType(row, matchedNames, binderType) ==
  \E k \in DOMAIN matchedNames : matchedNames[k] = row.name

\* WHERE name IN (...) [AND binder_type = ?typeIdx]
FetchWhere(row, matchedNames, binderType) ==
  /\ NameInList(row, matchedNames)
  /\ binderType # NoType => row.binder_type = binderType

\* CASE name WHEN ?n+1 THEN 0 ... WHEN ?2n THEN n-1 END: the first WHEN that
\* matches decides
OrderCase(name, matchedNames) ==
  LET hits == {k \in DOMAIN matchedNames : matchedNames[k] = name}
  IN (CHOOSE k \in hits : \A m \in hits : k <= m) - 1

\* faulty variant: ORDER BY name, set_name (alphabetical, the rank order dropped)
OrderByNameBefore(r1, r2, matchedNames) ==
  \/ BinaryLess(r1.name, r2.name)
  \/ r1.name = r2.name /\ BinaryLess(r1.set_name, r2.set_name)

\* ORDER BY CASE name ... END, set_name: r1 sorts strictly before r2
OrderByBefore(r1, r2, matchedNames) ==
  \/ OrderCase(r1.name, matchedNames) < OrderCase(r2.name, matchedNames)
  \/ /\ OrderCase(r1.name, matchedNames) = OrderCase(r2.name, matchedNames)
     /\ BinaryLess(r1.set_name, r2.set_name)

\* the rowids the final SELECT may return, in each order ORDER BY allows (rows
\* that tie on both keys come in an order SQL leaves open)
FetchRows(table, matchedNames, binderType) ==
  LET ids == {i \in DOMAIN table : FetchWhere(table[i], matchedNames, binderType)}
  IN {s \in Orderings(ids) :
        \A i, j \in DOMAIN s :
          i < j => ~OrderByBefore(table[s[j]], table[s[i]], matchedNames)}

rowToCardSummary(row) ==
  [binderType |-> row.binder_type, binderName |-> row.binder_name,
   quantity |-> row.quantity, name |-> row.name, scryfallId |-> row.scryfall_id]

\* what one run of searchCardsByName computed
SearchOutcome(path, likeResults, candidates, matchedNames, table, rows) ==
  [path |-> path, likeResults |-> likeResults, candidates |-> candidates,
   matchedNames |-> matchedNames, rows |-> [i \in DOMAIN rows |-> table[rows[i]]],
   result |-> [i \in DOMAIN rows |-> rowToCardSummary(table[rows[i]])]]

\* faulty variant: no early return, the final SELECT is prepared with an
\* empty CASE and throws
FetchOutcomesNoEarlyReturn(path, likeResults, candidates, matchedNames, table, binderType) ==
  IF Len(matchedNames) = 0
  THEN {SearchOutcome("error", likeResults, candidates, matchedNames, table, <<>>)}
  ELSE {SearchOutcome(path, likeResults, candidates, matchedNames, table, rows) :
          rows \in FetchRows(table, matchedNames, binderType)}

\* the final fetch for a non-empty matchedNames, or the early return []
FetchOutcomes(path, likeResults, candidates, matchedNames, table, binderType) ==
  IF Len(matchedNames) = 0
  THEN {SearchOutcome(path, likeResults, candidates, matchedNames, table, <<>>)}
  ELSE {SearchOutcome(path, likeResults, candidates, matchedNames, table, rows) :
          rows \in FetchRows(table, matchedNames, binderType)}

\* every outcome searchCardsByName(db, query, limit, binderType) can have
searchCardsByName(table, query, limit, binderType) ==
  LET pattern == likePattern(query)
      likeSet == IF binderType # NoType
                 THEN DistinctNamesLikeOfType(table, pattern, binderType)
                 ELSE DistinctNamesLike(table, pattern)
      allSet == IF binderType # NoType
                THEN DistinctNamesOfType(table, binderType)
                ELSE DistinctNames(table)
  IN IF likeSet # {}
     THEN UNION {FetchOutcomes("like", likeResults, likeResults,
                               findClosestMatches(query, likeResults, limit),
                               table, binderType) :
                   likeResults \in Orderings(likeSet)}
     ELSE IF binderType # NoType /\ DistinctNamesLike(table, pattern) # {}
     THEN {SearchOutcome("mismatch", <<>>, <<>>, <<>>, table, <<>>)}
     ELSE UNION {FetchOutcomes("fallback", <<>>, allNames,
                               findClosestMatches(query, allNames, limit),
                               table, binderType) :
                   allNames \in Orderings(allSet)}

\* faulty variant: the binder_type condition is left out, every binder_name
\* is a deck name
DistinctBinderNames(table) == {table[i].binder_name : i \in DOMAIN table}

\* SELECT DISTINCT binder_name FROM cards WHERE binder_type = 'deck'
DistinctDeckNames(table) ==
  {table[i].binder_name : i \in {k \in DOMAIN table : table[k].binder_type = "deck"}}

\* faulty variant: the rows of a binder of that name are counted too
RECURSIVE SumQuantityAnyType(_, _, _)
SumQuantityAnyType(table, deck, i) ==
  IF i > Len(table) THEN 0
  ELSE (IF table[i].binder_name = deck THEN table[i].quantity ELSE 0)
         + SumQuantityAnyType(table, deck, i + 1)

\* the sum of the quantity column over the rows i.. of the deck
RECURSIVE SumQuantity(_, _, _)
SumQuantity(table, deck, i) ==
  IF i > Len(table) THEN 0
  ELSE (IF table[i].binder_type = "deck" /\ table[i].binder_name = deck
        THEN table[i].quantity ELSE 0) + SumQuantity(table, deck, i + 1)

\* SELECT binder_name AS name, SUM(quantity) AS cardCount FROM cards
\* WHERE binder_type = 'deck' GROUP BY binder_name ORDER BY binder_name
listDecks(table) ==
  LET names == DistinctDeckNames(table)
      sorted == CHOOSE s \in Orderings(names) :
                  \A i, j \in DOMAIN s : i < j => BinaryLess(s[i], s[j])
  IN [i \in DOMAIN sorted |->
        [name |-> sorted[i], cardCount |-> SumQuantity(table, sorted[i], 1)]]

\* faulty variant: the binder_type condition is left out of the deck's SELECT
DeckWhereAnyType(row, resolvedName) == row.binder_name = resolvedName

\* WHERE binder_type = 'deck' AND binder_name = ?1
DeckWhere(row, resolvedName) ==
  row.binder_type = "deck" /\ row.binder_name = resolvedName

\* the rowids the deck's SELECT may return, in each order ORDER BY name allows
\* (rows with the same name come in an order SQL leaves open)
DeckRows(table, resolvedName) ==
  LET ids == {i \in DOMAIN table : DeckWhere(table[i], resolvedName)}
  IN {s \in Orderings(ids) :
        \A i, j \in DOMAIN s :
          i < j => ~BinaryLess(table[s[j]].name, table[s[i]].name)}

\* !resolvedName: matches[0] is undefined or the empty string
NoResolvedName(matches) == Len(matches) = 0 \/ Len(matches[1]) = 0

\* what one run of getDeckCards computed: null (found = FALSE) or
\* {resolvedName, cards}
DeckOutcome(found, allDeckNames, resolvedName, table, rows) ==
  [found |-> found, allDeckNames |-> allDeckNames, resolvedName |-> resolvedName,
   cards |-> [i \in DOMAIN rows |-> rowToCardSummary(table[rows[i]])]]

\* every outcome getDeckCards(db, deckName) can have
getDeckCards(table, deckName) ==
  LET deckSet == DistinctDeckNames(table)
  IN IF deckSet = {}
     THEN {DeckOutcome(FALSE, <<>>, <<>>, table, <<>>)}
     ELSE UNION
            {LET matches == findClosestMatches(deckName, allDeckNames, 1)
             IN IF NoResolvedName(matches)
                THEN {DeckOutcome(FALSE, allDeckNames, <<>>, table, <<>>)}
                ELSE {DeckOutcome(TRUE, allDeckNames, matches[1], table, rows) :
                        rows \in DeckRows(table, matches[1])} :
               allDeckNames \in Orderings(deckSet)}

----------------------------------------------------------------------------
(* csv.ts.  The text of a file is a sequence of characters; a run of        *)
(* characters that holds no comma, quote, space or line end ("Boxed",       *)
(* "deck") is kept as one element.                                          *)

EXPECTED_COLUMNS == 17

COMMA == ","

QUOTE == "\""

SPACE == " "

LF == "\n"

CR == "\r"

\* parseLine: the loop over the characters from position i on
RECURSIVE parseLineFrom(_, _, _, _, _)
parseLineFrom(line, i, current, inQuotes, fields) ==
  IF i > Len(line) THEN Append(fields, current)
  ELSE LET char == line[i] IN
       IF inQuotes
       THEN IF char = QUOTE
            THEN IF i + 1 <= Len(line) /\ line[i + 1] = QUOTE
                 THEN parseLineFrom(line, i + 2, Append(current, QUOTE), TRUE, fields)
                 ELSE parseLineFrom(line, i + 1, current, FALSE, fields)
            ELSE parseLineFrom(line, i + 1, Append(current, char), TRUE, fields)
       ELSE IF char = QUOTE
            THEN parseLineFrom(line, i + 1, current, TRUE, fields)
            ELSE IF char = COMMA
            THEN parseLineFrom(line, i + 1, <<>>, FALSE, Append(fields, current))
            ELSE parseLineFrom(line, i + 1, Append(current, char), FALSE, fields)

parseLine(line) == parseLineFrom(line, 1, <<>>, FALSE, <<>>)

\* content.replace(/\r\n/g, "\n").replace(/\r/g, "\n"): the CR of every CR LF
\* pair goes, every other CR becomes LF
normalize(content) ==
  LET gone == {i \in DOMAIN content :
                 content[i] = CR /\ i < Len(content) /\ content[i + 1] = LF}
      from(j) == CHOOSE i \in j..(j + Cardinality(gone)) :
                   i \notin gone /\ i - Cardinality({g \in gone : g < i}) = j
  IN [j \in 1..(Len(content) - Cardinality(gone)) |->
        IF content[from(j)] = CR THEN LF ELSE content[from(j)]]

\* normalized.split("\n"): the pieces between the line feeds, one more than
\* there are line feeds
split(text) ==
  LET feeds == {i \in DOMAIN text : text[i] = LF}
      feed(m) == CHOOSE i \in feeds : Cardinality({f \in feeds : f <= i}) = m
  IN [m \in 1..(Cardinality(feeds) + 1) |->
        SubSeq(text,
               IF m = 1 THEN 1 ELSE feed(m - 1) + 1,
               IF m = Cardinality(feeds) + 1 THEN Len(text) ELSE feed(m) - 1)]

\* line.trim().length > 0
notBlank(line) == \E i \in DOMAIN line : line[i] # SPACE

\* a one-element text as a string of the model; the strings of the model have
\* no concatenation, and a longer text is none of the strings compared with
Text(field) == IF Len(field) = 1 THEN field[1] ELSE "other"

\* parseInt(field, 10) || 0
parseInt(field) ==
  IF field = <<"1">> THEN 1 ELSE IF field = <<"2">> THEN 2 ELSE 0

\* faulty variant: the binder type is not looked at
binderTypeAny(binderType) == TRUE

\* !(binderType !== "binder" && binderType !== "deck")
binderTypeKnown(binderType) == binderType = <<"binder">> \/ binderType = <<"deck">>

\* cards.push({...}): the columns of the model
makeCard(fields) ==
  [binder_name |-> fields[1], binder_type |-> Text(fields[2]), name |-> fields[3],
   set_name |-> fields[5], quantity |-> parseInt(fields[9]),
   scryfall_id |-> Text(fields[11])]

\* the loop over the data lines from idx on
RECURSIVE parseRowsFrom(_, _)
parseRowsFrom(lines, idx) ==
  IF idx > Len(lines) THEN <<>>
  ELSE LET fields == parseLine(lines[idx])
       IN IF Len(fields) # EXPECTED_COLUMNS THEN parseRowsFrom(lines, idx + 1)
          ELSE IF ~binderTypeKnown(fields[2]) THEN parseRowsFrom(lines, idx + 1)
          ELSE <<makeCard(fields)>> \o parseRowsFrom(lines, idx + 1)

parseCollectionCSV(content) ==
  LET normalized == normalize(content)
      lines == SelectSeq(split(normalized), notBlank)
  IN IF Len(lines) < 2 THEN <<>> ELSE parseRowsFrom(lines, 2)

----------------------------------------------------------------------------
(* The process: index.ts creates the database and imports the parsed CSV,   *)
(* then the server answers search_cards requests against it.                *)

NoCall == [op |-> "none"]

NoRank == [done |-> FALSE, query |-> <<>>, candidates |-> <<>>, maxResults |-> 0,
           out |-> <<>>]

NoDist == [done |-> FALSE, a |-> <<>>, b |-> <<>>, ab |-> 0, ba |-> 0]

\* no import has run on this database file yet
NoTxn == [state |-> "idle", outcome |-> "none", old |-> <<>>, records |-> <<>>,
          work |-> <<>>, idx |-> 0,
          prev |-> [outcome |-> "none", records |-> <<>>]]

NoRead == [state |-> "none", idx |-> 0, table |-> <<>>]

NoCsv == [done |-> FALSE, rows |-> <<>>, content |-> <<>>, cards |-> <<>>]

\* scryfall.ts
MIN_REQUEST_INTERVAL_MS == 100

RETRY_DELAY_MS == 1000

\* one step of the model's clock
TickMs == MIN_REQUEST_INTERVAL_MS \div 2

\* Date.now() when the module is loaded: far from 0, so that the first call
\* finds the interval elapsed
StartTime == MIN_REQUEST_INTERVAL_MS + TickMs

\* the tool requests that run side by side: one on the stdio transport and
\* one on the HTTP transport, which share the module scryfall.ts
Fetchers == {"stdio", "http"}

\* the status of a response of the remote API
Statuses == {200, 404, 429}

\* a tool request that is not inside throttledFetch
NoFetch == [pc |-> "idle", wakeAt |-> 0, requests |-> 0, firstStatus |-> 0,
            backoffFrom |-> 0, retryAt |-> 0, secondStatus |-> 0, result |-> 0]

\* the module is loaded, no throttledFetch has been called; firstAt and
\* prevFirstAt are the times of the last two first-attempt requests (-1: none)
NoNet == [now |-> StartTime, lastRequestTime |-> 0, calls |-> 0,
          procs |-> [p \in Fetchers |-> NoFetch],
          firstAt |-> 0 - 1, prevFirstAt |-> 0 - 1]

\* faulty variant: every error status is retried
shouldRetryAnyError(status) == status >= 400

\* response.status === 429
shouldRetry(status) == status = 429

\* an optional argument the caller left out
Absent == "undefined"

NoError == "no error"

NoResult == [kind |-> "none", text |-> <<>>]

NoTool ==
  [op |-> "none", scryfallId |-> Absent, name |-> Absent, pc |-> "idle",
   requests |-> <<>>, error |-> NoError, result |-> NoResult]

Init ==
  /\ cards = <<>>
  /\ phase = "created"
  /\ call = NoCall
  /\ rank = NoRank
  /\ dist = NoDist
  /\ txn = NoTxn
  /\ obs = NoRead
  /\ served = 0
  /\ csv = NoCsv
  /\ net = NoNet
  /\ tool = NoTool

\* index.ts main: importCards(db, cards) with the cards parsed from the CSV
ImportCards ==
  /\ phase = "created"
  /\ \E records \in SeqsUpTo(CardUniverse, MaxCards) :
       cards' = importCards(cards, records)
  /\ phase' = "ready"
  /\ UNCHANGED <<call, rank, dist, txn, obs, served, csv, net, tool>>

\* one call searchCardsByName(db, query, limit, binderType), as the
\* search_cards handler makes it (a direct caller may pass any limit)
SearchCards ==
  /\ phase = "ready"
  /\ \E query \in QuerySet, limit \in Limits, binderType \in BinderTypes \cup {NoType} :
       \E out \in searchCardsByName(cards, query, limit, binderType) :
         call' = [op |-> "search_cards", query |-> query, limit |-> limit,
                  binderType |-> binderType, out |-> out]
  /\ phase' = "responded"
  /\ UNCHANGED <<cards, rank, dist, txn, obs, served, csv, net, tool>>

\* the handler returns the rows to the transport; the call's locals are gone
Respond ==
  /\ phase = "responded"
  /\ call' = NoCall
  /\ phase' = "ready"
  /\ UNCHANGED <<cards, rank, dist, txn, obs, served, csv, net, tool>>

Next == ImportCards \/ SearchCards \/ Respond

Spec == Init /\ [][Next]_vars

----------------------------------------------------------------------------
(* SpecRank: findClosestMatches applied once to inputs drawn from bounded   *)
(* sets (candidate lists may repeat a string and come in any order).        *)

RankNames == NameSet \cup {<<"b", "a">>}

RankLimits == (0 - (MaxCandidates + 1))..(MaxCandidates + 1)

InitRank ==
  /\ cards = <<>>
  /\ phase = "created"
  /\ call = NoCall
  /\ dist = NoDist
  /\ txn = NoTxn
  /\ obs = NoRead
  /\ served = 0
  /\ csv = NoCsv
  /\ net = NoNet
  /\ tool = NoTool
  /\ \E query \in QuerySet, candidates \in SeqsUpTo(RankNames, MaxCandidates),
        maxResults \in RankLimits :
       rank = [done |-> FALSE, query |-> query, candidates |-> candidates,
               maxResults |-> maxResults, out |-> <<>>]

ApplyRank ==
  /\ ~rank.done
  /\ rank' = [rank EXCEPT !.done = TRUE,
                          !.out = findClosestMatches(rank.query, rank.candidates,
                                                     rank.maxResults)]
  /\ UNCHANGED <<cards, phase, call, dist, txn, obs, served, csv, net, tool>>

NextRank == ApplyRank

SpecRank == InitRank /\ [][NextRank]_vars

----------------------------------------------------------------------------
(* SpecImport: importCards statement by statement on a database file that    *)
(* outlives the process (CREATE TABLE IF NOT EXISTS), so that an import      *)
(* meets the rows of the one before it, while a second connection to the     *)
(* file reads the table.  cards is the committed table, txn.work the view    *)
(* of the transaction.  The records may hold a card the CHECK constraint     *)
(* rejects (a caller that goes around the CSV parser).                       *)

ImportUniverse ==
  {c \in CardUniverse : c.name = <<"B">> /\ c.set_name = <<"a">>}
    \cup {[binder_name |-> "Boxed", binder_type |-> "list", name |-> <<"B">>,
            set_name |-> <<"a">>, quantity |-> 1, scryfall_id |-> "sid"]}

InitImport ==
  /\ cards = <<>>
  /\ phase = "created"
  /\ call = NoCall
  /\ rank = NoRank
  /\ dist = NoDist
  /\ txn = NoTxn
  /\ obs = NoRead
  /\ served = 0
  /\ csv = NoCsv
  /\ net = NoNet
  /\ tool = NoTool

\* importCards is called: the statements are prepared, runImport(cards) begins
ImportBegin ==
  /\ txn.state = "idle"
  /\ \E records \in SeqsUpTo(ImportUniverse, MaxCards) :
       txn' = [state |-> "begun", outcome |-> "none", old |-> cards,
               records |-> records, work |-> cards, idx |-> 0,
               prev |-> [outcome |-> txn.outcome, records |-> txn.records]]
  /\ obs' = NoRead
  /\ UNCHANGED <<cards, phase, call, rank, dist, served, csv, net, tool>>

\* drop.run()
ImportDrop ==
  /\ txn.state = "begun"
  /\ LET work == drop(txn.work)
     IN /\ txn' = [txn EXCEPT !.state = "inserting", !.work = work]
        /\ cards' = transaction(cards, work)
  /\ UNCHANGED <<phase, call, rank, dist, obs, served, csv, net, tool>>

\* insert.run(card) for the next card: the row is added, or the statement
\* throws and the loop is left
ImportInsert ==
  /\ txn.state = "inserting"
  /\ txn.idx < Len(txn.records)
  /\ LET card == txn.records[txn.idx + 1]
     IN IF insertAccepts(card)
        THEN LET work == insert(txn.work, card)
             IN /\ txn' = [txn EXCEPT !.work = work, !.idx = txn.idx + 1]
                /\ cards' = transaction(cards, work)
        ELSE /\ txn' = [txn EXCEPT !.state = "failed"]
             /\ UNCHANGED cards
  /\ UNCHANGED <<phase, call, rank, dist, obs, served, csv, net, tool>>

\* the function given to db.transaction returns: COMMIT
ImportCommit ==
  /\ txn.state = "inserting"
  /\ txn.idx = Len(txn.records)
  /\ cards' = txn.work
  /\ txn' = [txn EXCEPT !.state = "idle", !.outcome = "committed"]
  /\ UNCHANGED <<phase, call, rank, dist, obs, served, csv, net, tool>>

\* the function given to db.transaction threw: ROLLBACK, the work is dropped
\* and the committed table stays
ImportRollback ==
  /\ txn.state = "failed"
  /\ txn' = [txn EXCEPT !.state = "idle", !.outcome = "rolledback"]
  /\ UNCHANGED <<cards, phase, call, rank, dist, obs, served, csv, net, tool>>

\* one SELECT of searchCardsByName, listDecks or getDeckCards on another
\* connection: it reads the committed table
StoreRead ==
  /\ obs' = [state |-> txn.state, idx |-> txn.idx, table |-> cards]
  /\ UNCHANGED <<cards, phase, call, rank, dist, txn, served, csv, net, tool>>

NextImport ==
  \/ ImportBegin
  \/ ImportDrop
  \/ ImportInsert
  \/ ImportCommit
  \/ ImportRollback
  \/ StoreRead

SpecImport == InitImport /\ [][NextImport]_vars

----------------------------------------------------------------------------
(* SpecDeck: the process with a collection whose binder names are strings   *)
(* of the model (the empty name included: the CSV parser takes any first    *)
(* field), answering list_decks and get_deck_cards requests.                *)

\* binder names: the empty one, two that differ in case only, a longer one
GroupNameSet == {<<>>, <<"a">>, <<"A">>, <<"b", "a", "b">>}

DeckCardNames == {<<"a", "b">>, <<"B">>}

DeckQuerySet == {<<>>, <<"a">>, <<"b">>, <<"B", "a">>}

Quantities == {1, 2}

DeckCardUniverse ==
  {[binder_name |-> g, binder_type |-> t, name |-> n, set_name |-> <<"a">>,
    quantity |-> q, scryfall_id |-> "sid"] :
     g \in GroupNameSet, t \in BinderTypes, n \in DeckCardNames, q \in Quantities}

\* index.ts main: importCards(db, cards) with the cards parsed from the CSV
ImportDeckCards ==
  /\ phase = "created"
  /\ \E records \in SeqsUpTo(DeckCardUniverse, MaxCards) :
       cards' = importCards(cards, records)
  /\ phase' = "ready"
  /\ UNCHANGED <<call, rank, dist, txn, obs, served, csv, net, tool>>

\* the list_decks handler: listDecks(db)
ListDecks ==
  /\ phase = "ready"
  /\ call' = [op |-> "list_decks", out |-> listDecks(cards)]
  /\ phase' = "responded"
  /\ UNCHANGED <<cards, rank, dist, txn, obs, served, csv, net, tool>>

\* faulty variant: the handler writes the spelling asked for back to the rows
\* of the deck it resolved
GetDeckCardsRenaming ==
  /\ phase = "ready"
  /\ \E name \in DeckQuerySet :
       \E out \in getDeckCards(cards, name) :
         /\ call' = [op |-> "get_deck_cards", name |-> name, out |-> out]
         /\ cards' = [i \in DOMAIN cards |->
                        IF out.found /\ DeckWhere(cards[i], out.resolvedName)
                        THEN [cards[i] EXCEPT !.binder_name = name]
                        ELSE cards[i]]
  /\ phase' = "responded"
  /\ UNCHANGED <<rank, dist, txn, obs, served, csv, net, tool>>

\* the get_deck_cards handler: getDeckCards(db, name)
GetDeckCards ==
  /\ phase = "ready"
  /\ \E name \in DeckQuerySet :
       \E out \in getDeckCards(cards, name) :
         call' = [op |-> "get_deck_cards", name |-> name, out |-> out]
  /\ phase' = "responded"
  /\ UNCHANGED <<cards, rank, dist, txn, obs, served, csv, net, tool>>

NextDeck == ImportDeckCards \/ ListDecks \/ GetDeckCards \/ Respond

SpecDeck == Init /\ [][NextDeck]_vars

----------------------------------------------------------------------------
(* SpecResolver: the server answering search_cards, list_decks and         *)
(* get_deck_cards requests one after the other against one collection       *)
(* (possibly an empty one).                                                 *)

ResolverUniverse ==
  {c \in DeckCardUniverse :
     c.quantity = 1 /\ c.binder_name \in {<<"a">>, <<"b", "a", "b">>}}

\* index.ts main: importCards(db, cards) with the cards parsed from the CSV
ImportResolverCards ==
  /\ phase = "created"
  /\ \E records \in SeqsUpTo(ResolverUniverse, MaxCards) :
       cards' = importCards(cards, records)
  /\ phase' = "ready"
  /\ UNCHANGED <<call, rank, dist, txn, obs, served, csv, net, tool>>

\* the search_cards handler: searchCardsByName(db, query, limit, binderType)
SearchResolverCards ==
  /\ phase = "ready"
  /\ \E query \in DeckQuerySet, limit \in Limits, binderType \in BinderTypes \cup {NoType} :
       \E out \in searchCardsByName(cards, query, limit, binderType) :
         call' = [op |-> "search_cards", query |-> query, limit |-> limit,
                  binderType |-> binderType, out |-> out]
  /\ phase' = "responded"
  /\ UNCHANGED <<cards, rank, dist, txn, obs, served, csv, net, tool>>

\* the handler returns its text to the transport, which is ready for the next
\* request
RespondCounted ==
  /\ phase = "responded"
  /\ served < MaxCalls
  /\ served' = served + 1
  /\ call' = NoCall
  /\ phase' = "ready"
  /\ UNCHANGED <<cards, rank, dist, txn, obs, csv, net, tool>>

NextResolver ==
  \/ ImportResolverCards
  \/ SearchResolverCards
  \/ ListDecks
  \/ GetDeckCards
  \/ RespondCounted

SpecResolver == Init /\ [][NextResolver]_vars

----------------------------------------------------------------------------
(* SpecThrottle: throttledFetch called by tool requests that run side by    *)
(* side on the one event loop.  A call runs without interruption from one   *)
(* await to the next; a timer fires no earlier than asked for; the remote   *)
(* API answers with any status at any time.                                  *)

\* lastRequestTime = Date.now(); fetch(url, ...): the first attempt of call p
FirstRequest(p) ==
  [net EXCEPT !.lastRequestTime = net.now,
              !.prevFirstAt = net.firstAt,
              !.firstAt = net.now,
              !.procs[p].pc = "fetch1",
              !.procs[p].requests = 1]

\* throttledFetch(url) is called: the interval has elapsed and the request is
\* made at once, or the call sleeps for the rest of the interval
FetchCall(p) ==
  /\ net.procs[p].pc = "idle"
  /\ net.calls < MaxFetchCalls
  /\ LET elapsed == net.now - net.lastRequestTime
         started == [net EXCEPT !.calls = net.calls + 1]
     IN IF elapsed < MIN_REQUEST_INTERVAL_MS
        THEN net' = [started EXCEPT
                       !.procs[p].pc = "sleep",
                       !.procs[p].wakeAt = net.now + (MIN_REQUEST_INTERVAL_MS - elapsed)]
        ELSE net' = [FirstRequest(p) EXCEPT !.calls = net.calls + 1]
  /\ UNCHANGED <<cards, phase, call, rank, dist, txn, obs, served, csv, tool>>

\* Bun.sleep(MIN_REQUEST_INTERVAL_MS - elapsed) is over
FetchWake(p) ==
  /\ net.procs[p].pc = "sleep"
  /\ net.now >= net.procs[p].wakeAt
  /\ net' = FirstRequest(p)
  /\ UNCHANGED <<cards, phase, call, rank, dist, txn, obs, served, csv, tool>>

\* the first response arrives: it is returned, or on 429 the call backs off
FetchRespond(p) ==
  /\ net.procs[p].pc = "fetch1"
  /\ \E status \in Statuses :
       net' = IF shouldRetry(status)
              THEN [net EXCEPT !.procs[p].pc = "backoff",
                               !.procs[p].firstStatus = status,
                               !.procs[p].backoffFrom = net.now,
                               !.procs[p].wakeAt = net.now + RETRY_DELAY_MS]
              ELSE [net EXCEPT !.procs[p].pc = "done",
                               !.procs[p].firstStatus = status,
                               !.procs[p].result = status]
  /\ UNCHANGED <<cards, phase, call, rank, dist, txn, obs, served, csv, tool>>

\* Bun.sleep(RETRY_DELAY_MS) is over: lastRequestTime = Date.now(); fetch again
FetchRetry(p) ==
  /\ net.procs[p].pc = "backoff"
  /\ net.now >= net.procs[p].wakeAt
  /\ net' = [net EXCEPT !.lastRequestTime = net.now,
                        !.procs[p].pc = "fetch2",
                        !.procs[p].requests = net.procs[p].requests + 1,
                        !.procs[p].retryAt = net.now]
  /\ UNCHANGED <<cards, phase, call, rank, dist, txn, obs, served, csv, tool>>

\* the response of the retry arrives and is returned as it is
FetchRespondRetry(p) ==
  /\ net.procs[p].pc = "fetch2"
  /\ \E status \in Statuses :
       net' = [net EXCEPT !.procs[p].pc = "done",
                          !.procs[p].secondStatus = status,
                          !.procs[p].result = status]
  /\ UNCHANGED <<cards, phase, call, rank, dist, txn, obs, served, csv, tool>>

\* the caller has the response; the tool request ends
FetchReturn(p) ==
  /\ net.procs[p].pc = "done"
  /\ net' = [net EXCEPT !.procs[p] = NoFetch]
  /\ UNCHANGED <<cards, phase, call, rank, dist, txn, obs, served, csv, tool>>

\* time passes: half an interval, or (once) the time of a backoff
Tick ==
  /\ \/ /\ (net.now - StartTime) % RETRY_DELAY_MS < MaxTicks * TickMs
        /\ net' = [net EXCEPT !.now = net.now + TickMs]
     \/ /\ net.now - StartTime < RETRY_DELAY_MS
        /\ net' = [net EXCEPT !.now = net.now + RETRY_DELAY_MS]
  /\ UNCHANGED <<cards, phase, call, rank, dist, txn, obs, served, csv, tool>>

NextThrottle ==
  \/ \E p \in Fetchers : FetchCall(p)
  \/ \E p \in Fetchers : FetchWake(p)
  \/ \E p \in Fetchers : FetchRespond(p)
  \/ \E p \in Fetchers : FetchRetry(p)
  \/ \E p \in Fetchers : FetchRespondRetry(p)
  \/ \E p \in Fetchers : FetchReturn(p)
  \/ Tick

SpecThrottle == Init /\ [][NextThrottle]_vars

----------------------------------------------------------------------------
(* SpecCsv: a CSV file is written from rows of fields the way a spreadsheet *)
(* export writes it (a field with a comma or a quote is quoted, a quote is  *)
(* doubled), parsed by parseCollectionCSV and imported.                     *)

\* a row of k fields: binder name, binder type, card name, a quantity of 1 in
\* the ninth column, the other columns empty
MakeRow(binder, type, name, k) ==
  [i \in 1..k |->
     CASE i = 1 -> binder
       [] i = 2 -> type
       [] i = 3 -> name
       [] i = 9 -> <<"1">>
       [] OTHER -> <<>>]

RowSet ==
  {MakeRow(<<"Binder Name">>, <<"Binder Type">>, <<"Name">>, EXPECTED_COLUMNS),
   MakeRow(<<"Boxed">>, <<"binder">>, <<"Sol">>, EXPECTED_COLUMNS),
   MakeRow(<<"Zurgo">>, <<"deck">>, <<"Ezuri", COMMA, SPACE, "Ren">>, EXPECTED_COLUMNS),
   MakeRow(<<>>, <<"deck">>, <<"Card", QUOTE, "q", QUOTE>>, EXPECTED_COLUMNS),
   MakeRow(<<"Boxed">>, <<"wishlist">>, <<"Sol">>, EXPECTED_COLUMNS),
   MakeRow(<<"Boxed">>, <<"binder">>, <<"Three">>, 3),
   MakeRow(<<"Zurgo">>, <<"deck">>, <<"Long">>, EXPECTED_COLUMNS + 1),
   <<<<SPACE>>>>}

EolStyles == {<<LF>>, <<CR, LF>>, <<CR>>}

RECURSIVE DoubleQuotes(_)
DoubleQuotes(field) ==
  IF Len(field) = 0 THEN <<>>
  ELSE (IF Head(field) = QUOTE THEN <<QUOTE, QUOTE>> ELSE <<Head(field)>>)
         \o DoubleQuotes(Tail(field))

WriteField(field) ==
  IF COMMA \in Range(field) \/ QUOTE \in Range(field)
  THEN <<QUOTE>> \o DoubleQuotes(field) \o <<QUOTE>>
  ELSE field

RECURSIVE WriteRow(_)
WriteRow(row) ==
  IF Len(row) = 1 THEN WriteField(row[1])
  ELSE WriteField(Head(row)) \o <<COMMA>> \o WriteRow(Tail(row))

RECURSIVE WriteFile(_, _, _)
WriteFile(rows, eol, trailing) ==
  IF Len(rows) = 0 THEN <<>>
  ELSE IF Len(rows) = 1 THEN WriteRow(rows[1]) \o (IF trailing THEN eol ELSE <<>>)
  ELSE WriteRow(Head(rows)) \o eol \o WriteFile(Tail(rows), eol, trailing)

InitCsv ==
  /\ cards = <<>>
  /\ phase = "created"
  /\ call = NoCall
  /\ rank = NoRank
  /\ dist = NoDist
  /\ txn = NoTxn
  /\ obs = NoRead
  /\ served = 0
  /\ net = NoNet
  /\ tool = NoTool
  /\ \E rows \in SeqsUpTo(RowSet, MaxLines), eol \in EolStyles, trailing \in BOOLEAN :
       csv = [done |-> FALSE, rows |-> rows,
              content |-> WriteFile(rows, eol, trailing), cards |-> <<>>]

\* index.ts main: parseCollectionCSV(csvContent)
ParseCsv ==
  /\ ~csv.done
  /\ csv' = [csv EXCEPT !.done = TRUE, !.cards = parseCollectionCSV(csv.content)]
  /\ UNCHANGED <<cards, phase, call, rank, dist, txn, obs, served, net, tool>>

\* index.ts main: importCards(db, cards)
ImportParsed ==
  /\ csv.done
  /\ phase = "created"
  /\ cards' = importCards(cards, csv.cards)
  /\ phase' = "ready"
  /\ UNCHANGED <<call, rank, dist, txn, obs, served, csv, net, tool>>

NextCsv == ParseCsv \/ ImportParsed

SpecCsv == InitCsv /\ [][NextCsv]_vars

----------------------------------------------------------------------------
(* SpecTool: the scryfall_search, scryfall_card and scryfall_rulings        *)
(* handlers of server.ts.  A handler runs up to its next await in one step; *)
(* a call of scryfall.ts (throttledFetch, the status test and the parsing   *)
(* of the body) is one request that either returns or raises an Error.      *)

\* an argument of a request: left out, the empty string, or another string
ToolArgs == {Absent, "", "x"}

\* !x of an optional string
falsy(x) == x = Absent \/ x = ""

\* how a call of scryfall.ts fails: the status is not ok and the body has no
\* details, it has details, fetch rejects, or the body of an ok response is
\* not JSON
ErrorOutcomes == {"status", "details", "network", "body"}

\* the message of the Error raised: handleScryfallError's, fetch's or
\* response.json()'s
errorMessage(outcome) ==
  CASE outcome = "status"  -> "Scryfall API error: 404"
    [] outcome = "details" -> "Scryfall: No card found"
    [] outcome = "network" -> "fetch failed"
    [] outcome = "body"    -> "Unexpected token"

failedPrefix(op) ==
  CASE op = "scryfall_search"  -> "Search failed: "
    [] op = "scryfall_card"    -> "Card lookup failed: "
    [] op = "scryfall_rulings" -> "Rulings lookup failed: "

textResult(text) == [kind |-> "text", text |-> text]

\* faulty variant: the handler has no catch block
rethrowError(op, message) == [kind |-> "thrown", text |-> <<message>>]

\* catch (err) { return { content: [{ type: "text", text: `... failed: ${message}` }] } }
catchError(op, message) == textResult(<<failedPrefix(op), message>>)

\* scryfall_search: no guard; fetchScryfallSearch(query, order, dir)
ScryfallSearch ==
  /\ tool.pc = "idle"
  /\ \E query \in ToolArgs \ {Absent} :
       tool' = [NoTool EXCEPT !.op = "scryfall_search", !.name = query,
                              !.pc = "awaiting", !.requests = <<"search">>]
  /\ UNCHANGED <<cards, phase, call, rank, dist, txn, obs, served, csv, net>>

\* scryfall_card: the guard, then fetchScryfallCardById or fetchScryfallCardByName
ScryfallCard ==
  /\ tool.pc = "idle"
  /\ \E scryfallId \in ToolArgs, name \in ToolArgs :
       LET request == [NoTool EXCEPT !.op = "scryfall_card",
                                     !.scryfallId = scryfallId, !.name = name]
       IN tool' =
            IF falsy(scryfallId) /\ falsy(name)
            THEN [request EXCEPT
                    !.pc = "returned",
                    !.result = textResult(
                       <<"Provide either scryfallId or name to look up a card.">>)]
            ELSE [request EXCEPT
                    !.pc = "awaiting",
                    !.requests = <<IF ~falsy(scryfallId) THEN "byId" ELSE "byName">>]
  /\ UNCHANGED <<cards, phase, call, rank, dist, txn, obs, served, csv, net>>

\* scryfall_rulings: the guard, then fetchScryfallCardByName if there is no id,
\* else fetchScryfallRulings
ScryfallRulings ==
  /\ tool.pc = "idle"
  /\ \E scryfallId \in ToolArgs, name \in ToolArgs :
       LET request == [NoTool EXCEPT !.op = "scryfall_rulings",
                                     !.scryfallId = scryfallId, !.name = name]
       IN tool' =
            IF falsy(scryfallId) /\ falsy(name)
            THEN [request EXCEPT
                    !.pc = "returned",
                    !.result = textResult(
                       <<"Provide either scryfallId or name to look up rulings.">>)]
            ELSE [request EXCEPT
                    !.pc = "awaiting",
                    !.requests = <<IF ~falsy(scryfallId) THEN "rulings" ELSE "byName">>]
  /\ UNCHANGED <<cards, phase, call, rank, dist, txn, obs, served, csv, net>>

\* scryfall_search: the result arrives
SearchReply ==
  /\ tool.pc = "awaiting"
  /\ tool.op = "scryfall_search"
  /\ tool' = [tool EXCEPT !.pc = "returned",
                          !.result = textResult(<<"Found ", "cards">>)]
  /\ UNCHANGED <<cards, phase, call, rank, dist, txn, obs, served, csv, net>>

\* scryfall_card: the card arrives
CardReply ==
  /\ tool.pc = "awaiting"
  /\ tool.op = "scryfall_card"
  /\ tool' = [tool EXCEPT !.pc = "returned", !.result = textResult(<<"card">>)]
  /\ UNCHANGED <<cards, phase, call, rank, dist, txn, obs, served, csv, net>>

\* scryfall_rulings: the card of the name arrives; fetchScryfallRulings(card.id)
RulingsResolve ==
  /\ tool.pc = "awaiting"
  /\ tool.op = "scryfall_rulings"
  /\ tool.requests[Len(tool.requests)] = "byName"
  /\ tool' = [tool EXCEPT !.requests = Append(@, "rulings")]
  /\ UNCHANGED <<cards, phase, call, rank, dist, txn, obs, served, csv, net>>

\* scryfall_rulings: the rulings arrive, none or some
RulingsReply ==
  /\ tool.pc = "awaiting"
  /\ tool.op = "scryfall_rulings"
  /\ tool.requests[Len(tool.requests)] = "rulings"
  /\ \E count \in 0..1 :
       tool' = [tool EXCEPT
                  !.pc = "returned",
                  !.result = IF count = 0
                             THEN textResult(<<"No rulings found for ">>)
                             ELSE textResult(<<"Rulings for ", "rulings">>)]
  /\ UNCHANGED <<cards, phase, call, rank, dist, txn, obs, served, csv, net>>

\* the request in flight raises an Error: the catch block of the handler
RemoteError ==
  /\ tool.pc = "awaiting"
  /\ \E outcome \in ErrorOutcomes :
       tool' = [tool EXCEPT !.pc = "returned",
                            !.error = errorMessage(outcome),
                            !.result = catchError(tool.op, errorMessage(outcome))]
  /\ UNCHANGED <<cards, phase, call, rank, dist, txn, obs, served, csv, net>>

\* the result is sent; the server waits for the next request
ToolDone ==
  /\ tool.pc = "returned"
  /\ served < MaxCalls
  /\ tool' = NoTool
  /\ served' = served + 1
  /\ UNCHANGED <<cards, phase, call, rank, dist, txn, obs, csv, net>>

NextTool ==
  \/ ScryfallSearch
  \/ ScryfallCard
  \/ ScryfallRulings
  \/ SearchReply
  \/ CardReply
  \/ RulingsResolve
  \/ RulingsReply
  \/ RemoteError
  \/ ToolDone

SpecTool == Init /\ [][NextTool]_vars

----------------------------------------------------------------------------
(* SpecDistance: computeLevenshteinDistance applied to a pair of strings,    *)
(* and to the same pair the other way round.  The strings are drawn from an *)
(* alphabet with one letter in both cases, the empty string included.        *)

DistAlphabet == {"a", "A", "b"}

DistStrings == SeqsUpTo(DistAlphabet, MaxStrLen)

kitten == <<"k", "i", "t", "t", "e", "n">>

sitting == <<"s", "i", "t", "t", "i", "n", "g">>

DistPairs == (DistStrings \X DistStrings) \cup {<<kitten, sitting>>}

InitDistance ==
  /\ cards = <<>>
  /\ phase = "created"
  /\ call = NoCall
  /\ rank = NoRank
  /\ txn = NoTxn
  /\ obs = NoRead
  /\ served = 0
  /\ csv = NoCsv
  /\ net = NoNet
  /\ tool = NoTool
  /\ \E pair \in DistPairs :
       dist = [done |-> FALSE, a |-> pair[1], b |-> pair[2], ab |-> 0, ba |-> 0]

ApplyDistance ==
  /\ ~dist.done
  /\ dist' = [dist EXCEPT !.done = TRUE,
                          !.ab = computeLevenshteinDistance(dist.a, dist.b),
                          !.ba = computeLevenshteinDistance(dist.b, dist.a)]
  /\ UNCHANGED <<cards, phase, call, rank, txn, obs, served, csv, net, tool>>

NextDistance == ApplyDistance

SpecDistance == InitDistance /\ [][NextDistance]_vars

----------------------------------------------------------------------------
(* Vocabulary of the properties *)

\* name contains query as a contiguous substring, ASCII case folded
Contains(name, query) ==
  \E k \in 0..(Len(name) - Len(query)) :
    \A i \in 1..Len(query) : ToLowerChar(name[k + i]) = ToLowerChar(query[i])

\* the distinct names of the catalog, restricted to the scope if one is given
ScopeNames(table, binderType) ==
  {table[i].name :
     i \in {k \in DOMAIN table : binderType = NoType \/ table[k].binder_type = binderType}}

Searched == call.op = "search_cards"

Count(seq, x) == Cardinality({i \in DOMAIN seq : seq[i] = x})

ResultNames == {call.out.result[i].name : i \in DOMAIN call.out.result}

Position(seq, x) == CHOOSE k \in DOMAIN seq : seq[k] = x

Distance(q, c) == computeLevenshteinDistance(q, c)

----------------------------------------------------------------------------
(* searchByName *)

\* C1: a search with a scope, where no name of that scope contains the query
\* as a substring but some name of the catalog does, returns the empty
\* sequence.
C1_ScopeMismatchReturnsEmpty ==
  ( /\ Searched
    /\ call.binderType # NoType
    /\ \A n \in ScopeNames(cards, call.binderType) : ~Contains(n, call.query)
    /\ \E n \in DistinctNames(cards) : Contains(n, call.query) )
  => call.out.result = <<>>

\* C2: when no name (of the scope, if given) contains the query as a
\* substring and the scope-mismatch rule does not apply, the resolved names
\* are rank(query, the distinct names of the scope, limit), and the first
\* summary's name is at minimum distance from the query among those names.
C2_TypoFallbackRanksAllNames ==
  ( /\ Searched
    /\ \A n \in ScopeNames(cards, call.binderType) : ~Contains(n, call.query)
    /\ ~( /\ call.binderType # NoType
          /\ \E n \in DistinctNames(cards) : Contains(n, call.query) ) )
  => /\ \E allNames \in Orderings(ScopeNames(cards, call.binderType)) :
          call.out.matchedNames = findClosestMatches(call.query, allNames, call.limit)
     /\ Len(call.out.result) > 0 =>
          \A n \in ScopeNames(cards, call.binderType) :
            Distance(call.query, call.out.result[1].name) <= Distance(call.query, n)

\* C3: when some name (of the scope, if given) contains the query as a
\* substring, every returned summary's name contains the query as a substring.
C3_NoFallbackAfterSubstringHit ==
  ( /\ Searched
    /\ \E n \in ScopeNames(cards, call.binderType) : Contains(n, call.query) )
  => \A i \in DOMAIN call.out.result : Contains(call.out.result[i].name, call.query)

\* C4: a search with a scope returns only summaries of that scope, on the
\* substring path and on the typo-correction path.
C4_ScopeFiltering ==
  (Searched /\ call.binderType # NoType)
  => \A i \in DOMAIN call.out.result :
       call.out.result[i].binderType = call.binderType

\* C4 witness: a scoped search on the typo-correction path returned rows while
\* the catalog holds a record of a resolved name in the other scope.
C4_Witness ==
  /\ Searched
  /\ call.binderType # NoType
  /\ call.out.path = "fallback"
  /\ Len(call.out.result) > 0
  /\ \E i \in DOMAIN cards :
       /\ cards[i].name \in Range(call.out.matchedNames)
       /\ cards[i].binder_type # call.binderType

\* C5: the returned sequence holds, exactly once each, the catalog records
\* whose name is a resolved name (and whose scope is the requested one), and
\* nothing else: every summary occurs as often as such records project to it.
C5_RowCompleteness ==
  Searched =>
    \A s \in Range(call.out.result) \cup {rowToCardSummary(cards[i]) : i \in DOMAIN cards} :
      Count(call.out.result, s) =
        Cardinality({i \in DOMAIN cards :
                       /\ rowToCardSummary(cards[i]) = s
                       /\ cards[i].name \in Range(call.out.matchedNames)
                       /\ call.binderType # NoType => cards[i].binder_type = call.binderType})

\* C5 witness: one resolved name held once per scope comes back as two
\* summaries.
C5_Witness ==
  /\ Searched
  /\ call.binderType = NoType
  /\ Len(call.out.matchedNames) = 1
  /\ Len(call.out.result) = 2
  /\ call.out.result[1].binderType # call.out.result[2].binderType

\* C6: rows follow the rank order of the resolved names, and rows of one name
\* come in ascending order of set name.
C6_RankOrderPreserved ==
  Searched =>
    \A i, j \in DOMAIN call.out.rows :
      LET x == call.out.rows[i]
          y == call.out.rows[j]
      IN /\ call.out.result[i].name = x.name
         /\ Position(call.out.matchedNames, x.name) < Position(call.out.matchedNames, y.name)
              => i < j
         /\ (x.name = y.name /\ BinaryLess(x.set_name, y.set_name)) => i < j

\* C6 witness: two rows of different names came back in the opposite order of
\* their insertion, the second-inserted being the better match.
C6_Witness ==
  /\ Searched
  /\ Len(call.out.rows) = 2
  /\ Len(cards) = 2
  /\ call.out.rows[1].name # call.out.rows[2].name
  /\ call.out.rows[1] = cards[2]
  /\ Distance(call.query, cards[2].name) < Distance(call.query, cards[1].name)

\* C7: for limit >= 1 the summaries returned carry at most limit distinct
\* names (the number of rows may be larger).
C7_LimitBoundsDistinctNames ==
  (Searched /\ call.limit >= 1) => Cardinality(ResultNames) <= call.limit

\* C7 witness: more rows than limit came back, carrying exactly limit distinct
\* names.
C7_Witness ==
  /\ Searched
  /\ call.limit >= 1
  /\ Len(call.out.result) > call.limit
  /\ Cardinality(ResultNames) = call.limit

\* C8: the substring phase selects exactly the distinct names (of the scope,
\* if given) that contain the query as a contiguous substring, for every
\* query, those with % or _ and the empty one included.
C8_SubstringPhaseExact ==
  Searched =>
    Range(call.out.likeResults) =
      {n \in ScopeNames(cards, call.binderType) : Contains(n, call.query)}

----------------------------------------------------------------------------
(* rank *)

\* C9: rank returns the empty sequence for every limit <= 0, and all the
\* candidates when limit is larger than their number.
C9_RankLimitEdges ==
  rank.done =>
    /\ rank.maxResults <= 0 => rank.out = <<>>
    /\ rank.maxResults > Len(rank.candidates) =>
         /\ Len(rank.out) = Len(rank.candidates)
         /\ \A c \in Range(rank.candidates) :
              Count(rank.out, c) = Count(rank.candidates, c)

\* C10: for n >= 1 rank returns min(n, |candidates|) of the candidates in
\* non-decreasing distance, omitting no candidate strictly closer than one it
\* returns; its first item is at minimum distance; rank(q, [], n) = [].
C10_RankClosestFirst ==
  (rank.done /\ rank.maxResults >= 1) =>
    LET q == rank.query
        out == rank.out
    IN /\ Len(out) = Min2(rank.maxResults, Len(rank.candidates))
       /\ \A c \in Range(out) : Count(out, c) <= Count(rank.candidates, c)
       /\ \A i, j \in DOMAIN out : i < j => Distance(q, out[i]) <= Distance(q, out[j])
       /\ \A c \in Range(rank.candidates) :
            Count(out, c) < Count(rank.candidates, c) =>
              \A i \in DOMAIN out : Distance(q, out[i]) <= Distance(q, c)
       /\ Len(out) > 0 =>
            \A c \in Range(rank.candidates) : Distance(q, out[1]) <= Distance(q, c)
       /\ rank.candidates = <<>> => out = <<>>

\* C10 witness: a limit below the number of candidates cut the list, and the
\* closest candidate was moved to the front from a later position.
C10_Witness ==
  /\ rank.done
  /\ rank.maxResults >= 1
  /\ rank.maxResults < Len(rank.candidates)
  /\ rank.out[1] # rank.candidates[1]
  /\ Distance(rank.query, rank.out[1]) < Distance(rank.query, rank.candidates[1])

\* the candidate positions in ascending distance to q, ties in ascending
\* position
StableOrder(q, candidates) ==
  LET n == Len(candidates)
  IN CHOOSE p \in [1..n -> 1..n] :
       \A i, j \in 1..n :
         i < j =>
           \/ Distance(q, candidates[p[i]]) < Distance(q, candidates[p[j]])
           \/ /\ Distance(q, candidates[p[i]]) = Distance(q, candidates[p[j]])
              /\ p[i] < p[j]

\* C11: rank is stable: candidates at equal distance keep their relative
\* order, and of a tied group cut by the limit the first in the candidate list
\* are kept; the output is the front of the candidates ordered by distance,
\* then position.
C11_RankStable ==
  rank.done =>
    LET p == StableOrder(rank.query, rank.candidates)
    IN rank.out = [i \in 1..Len(rank.out) |-> rank.candidates[p[i]]]

\* C11 witness: the limit cut through a group of tied candidates, keeping an
\* earlier one and dropping a later, different one.
C11_Witness ==
  /\ rank.done
  /\ rank.maxResults >= 1
  /\ Len(rank.out) = rank.maxResults
  /\ \E i, j \in DOMAIN rank.candidates :
       /\ i < j
       /\ rank.candidates[i] # rank.candidates[j]
       /\ Distance(rank.query, rank.candidates[i]) = Distance(rank.query, rank.candidates[j])
       /\ rank.out[Len(rank.out)] = rank.candidates[i]
       /\ Count(rank.out, rank.candidates[j]) = 0

----------------------------------------------------------------------------
(* distance *)

\* s with its upper-case letters replaced by the lower-case ones
LowerCased(s) == [i \in DOMAIN s |-> ToLowerChar(s[i])]

\* the least number of single-character insertions, deletions and
\* substitutions that turn s into t, by the defining recursion
RECURSIVE EditDistance(_, _)
EditDistance(s, t) ==
  IF Len(s) = 0 THEN Len(t)
  ELSE IF Len(t) = 0 THEN Len(s)
  ELSE IF Head(s) = Head(t) THEN EditDistance(Tail(s), Tail(t))
  ELSE 1 + Min3(EditDistance(Tail(s), t),
                EditDistance(s, Tail(t)),
                EditDistance(Tail(s), Tail(t)))

\* C12: distance(a, b) is the Levenshtein distance (insertion, deletion,
\* substitution at cost 1 each) of the lower-cased a and b, the empty string
\* and strings of different lengths included; distance(a, a) = 0, strings
\* equal up to case are at distance 0, distance("", a) = length(a), and
\* distance("kitten", "sitting") = 3.
C12_DistanceIsLevenshtein ==
  dist.done =>
    /\ dist.ab = EditDistance(LowerCased(dist.a), LowerCased(dist.b))
    /\ dist.a = dist.b => dist.ab = 0
    /\ LowerCased(dist.a) = LowerCased(dist.b) => dist.ab = 0
    /\ dist.a = <<>> => dist.ab = Len(dist.b)
    /\ (dist.a = kitten /\ dist.b = sitting) => dist.ab = 3

\* C12 witness: two strings of different lengths that differ in case at one
\* place and in a letter at another have been scored.
C12_Witness ==
  /\ dist.done
  /\ Len(dist.a) # Len(dist.b)
  /\ \E i \in DOMAIN dist.a \cap DOMAIN dist.b :
       dist.a[i] # dist.b[i] /\ ToLowerChar(dist.a[i]) = ToLowerChar(dist.b[i])
  /\ dist.ab > 0
  /\ dist.ab < Max2(Len(dist.a), Len(dist.b))

\* C13: distance is symmetric: distance(a, b) = distance(b, a), although the
\* two rolling rows are sized by the second argument only.
C13_DistanceSymmetric == dist.done => dist.ab = dist.ba

\* C13 witness: two different non-empty strings of different lengths, so that
\* the rows of the two calls have different sizes, have been scored both ways.
C13_Witness ==
  /\ dist.done
  /\ Len(dist.a) > 0
  /\ Len(dist.b) > Len(dist.a)
  /\ dist.ab > Len(dist.b) - Len(dist.a)

----------------------------------------------------------------------------
(* replaceAll *)

\* the two tables hold the same rows, each as often in one as in the other
SameRows(t1, t2) ==
  /\ Len(t1) = Len(t2)
  /\ \A r \in Range(t1) \cup Range(t2) : Count(t1, r) = Count(t2, r)

ImportCommitted == txn.state = "idle" /\ txn.outcome = "committed"

\* C14: replaceAll discards the previous catalog: once it has completed the
\* catalog holds exactly the records given (as a multiset, duplicates as
\* distinct rows) and none of the earlier records, whatever the catalog held
\* before.
C14_ReplaceAllDiscardsPrevious ==
  ImportCommitted =>
    /\ SameRows(cards, txn.records)
    /\ \A r \in Range(txn.old) : Count(cards, r) = Count(txn.records, r)

\* C14 witness: an import that gave the same record twice has completed on a
\* catalog that held another record.
C14_Witness ==
  /\ ImportCommitted
  /\ Len(txn.records) = 2
  /\ txn.records[1] = txn.records[2]
  /\ \E r \in Range(txn.old) : r \notin Range(txn.records)

\* C15: replaceAll is atomic for readers: every store read made while
\* replaceAll runs, or after it, observes the complete old catalog or the
\* complete new one, never an empty or half-inserted one; and when an insert
\* fails midway the catalog is what it was before the call.
C15_ReplaceAllAtomic ==
  /\ obs.state \in {"begun", "inserting", "failed"} => obs.table = txn.old
  /\ obs.state = "idle" => obs.table = txn.old \/ obs.table = txn.records
  /\ (txn.state = "idle" /\ txn.outcome = "rolledback") => cards = txn.old

\* C15 witness: a reader read a non-empty catalog between the first insert
\* and the second one, which failed, and the import was rolled back.
C15_Witness ==
  /\ txn.state = "idle"
  /\ txn.outcome = "rolledback"
  /\ obs.state = "inserting"
  /\ obs.idx = 1
  /\ Len(obs.table) > 0
  /\ txn.records[1] \notin Range(txn.old)

\* C16: replaceAll is idempotent: called twice in a row with the same input
\* it leaves the same rows (same multiset, same row count) as called once.
C16_ReplaceAllIdempotent ==
  (/\ ImportCommitted
   /\ txn.prev.outcome = "committed"
   /\ txn.prev.records = txn.records)
    => SameRows(cards, txn.old)

\* C16 witness: the same two different records were imported twice in a row.
C16_Witness ==
  /\ ImportCommitted
  /\ txn.prev.outcome = "committed"
  /\ txn.prev.records = txn.records
  /\ Len(txn.records) = 2
  /\ txn.records[1] # txn.records[2]

----------------------------------------------------------------------------
(* resolveGroup *)

\* every table with the rows of the given one, in any insertion order
Reorderings(table) ==
  {[i \in DOMAIN table |-> table[p[i]]] : p \in Orderings(DOMAIN table)}

\* the names of the groups that have a record with scope GROUP
GroupScopeNames ==
  {cards[i].binder_name : i \in {k \in DOMAIN cards : cards[k].binder_type = "deck"}}

Resolved == call.op = "get_deck_cards" /\ call.out.found

\* C17: insertion order is irrelevant: for any two orderings of the same
\* records given to replaceAll, distinctNames yields the same set, and
\* searchByName, listGroups and resolveGroup return the same results for
\* every argument, ties in distance included.
C17_InsertionOrderIrrelevant ==
  phase = "ready" =>
    \A t \in Reorderings(cards) :
      /\ DistinctNames(t) = DistinctNames(cards)
      /\ listDecks(t) = listDecks(cards)
      /\ \A name \in DeckQuerySet :
           \A o1 \in getDeckCards(cards, name), o2 \in getDeckCards(t, name) :
             /\ o1.found = o2.found
             /\ o1.resolvedName = o2.resolvedName
             /\ o1.cards = o2.cards
      /\ \A query \in DeckQuerySet, limit \in 1..MaxLimit,
            binderType \in BinderTypes \cup {NoType} :
           \A o1 \in searchCardsByName(cards, query, limit, binderType),
              o2 \in searchCardsByName(t, query, limit, binderType) :
             o1.result = o2.result

\* C18: resolveGroup returns NOT_FOUND exactly when the catalog has no record
\* with scope GROUP; with at least one such record it returns a resolved name
\* and contents for every query string and every group name.
C18_NotFoundIffNoGroupRecord ==
  call.op = "get_deck_cards" => (~call.out.found <=> GroupScopeNames = {})

\* C19: the resolved name is the name of an existing GROUP-scope group at the
\* least distance to the query among all GROUP-scope group names; names that
\* occur only with scope COLLECTION are never candidates.
C19_ResolvedNameClosestGroup ==
  Resolved =>
    /\ call.out.resolvedName \in GroupScopeNames
    /\ \A g \in GroupScopeNames :
         Distance(call.name, call.out.resolvedName) <= Distance(call.name, g)

\* C19 witness: a name was resolved although a binder of the collection, which
\* is no deck, has a name closer to the query.
C19_Witness ==
  /\ Resolved
  /\ \E i \in DOMAIN cards :
       /\ cards[i].binder_type = "binder"
       /\ cards[i].binder_name \notin GroupScopeNames
       /\ Distance(call.name, cards[i].binder_name)
            < Distance(call.name, call.out.resolvedName)

\* C20: the contents are exactly the records with scope GROUP and group name
\* resolvedName (none of another group, none of a COLLECTION bucket of that
\* name, none missing), in ascending order of entity name.
C20_ContentsExactAndOrdered ==
  Resolved =>
    LET ids == {i \in DOMAIN cards :
                  /\ cards[i].binder_type = "deck"
                  /\ cards[i].binder_name = call.out.resolvedName}
        out == call.out.cards
    IN /\ Len(out) = Cardinality(ids)
       /\ \A i \in ids :
            Count(out, rowToCardSummary(cards[i]))
              = Cardinality({k \in ids : rowToCardSummary(cards[k]) = rowToCardSummary(cards[i])})
       /\ \A i, j \in DOMAIN out : i < j => ~BinaryLess(out[j].name, out[i].name)

\* C20 witness: the two cards of the resolved deck came back in the order of
\* their names, which is not the order they were inserted in.
C20_Witness ==
  /\ Resolved
  /\ Len(call.out.cards) = 2
  /\ Len(cards) = 2
  /\ call.out.cards[1].name = cards[2].name
  /\ BinaryLess(cards[2].name, cards[1].name)

\* s is a proper prefix of t
ProperPrefix(s, t) == Len(s) < Len(t) /\ SubSeq(t, 1, Len(s)) = s

\* C21: exact group lookup: a query that is character for character the name
\* of an existing GROUP-scope group resolves to that name, whatever other
\* group names the catalog holds.
C21_ExactGroupLookup ==
  (call.op = "get_deck_cards" /\ call.name \in GroupScopeNames) =>
    call.out.found /\ call.out.resolvedName = call.name

\* C22: partial group lookup: a query that is a proper prefix of exactly one
\* existing GROUP-scope group name resolves to that group, whatever other
\* group names the catalog holds.
C22_PartialGroupLookup ==
  call.op = "get_deck_cards" =>
    \A g \in GroupScopeNames :
      (\A h \in GroupScopeNames : ProperPrefix(call.name, h) <=> h = g) =>
        call.out.found /\ call.out.resolvedName = g

----------------------------------------------------------------------------
(* listGroups *)

\* the quantities of the rows with the given rowids, added up
RECURSIVE QuantityOf(_)
QuantityOf(ids) ==
  IF ids = {} THEN 0
  ELSE LET i == CHOOSE k \in ids : TRUE
       IN cards[i].quantity + QuantityOf(ids \ {i})

\* C23: listGroups returns one entry for each distinct group name that occurs
\* with scope GROUP and no other entry, with cardCount the sum of the
\* quantities of the GROUP-scope records of that name (COLLECTION-scope
\* records are not counted and make no entry), in ascending order of name.
C23_ListGroupsCounts ==
  call.op = "list_decks" =>
    LET out == call.out
    IN /\ {out[i].name : i \in DOMAIN out} = GroupScopeNames
       /\ \A i, j \in DOMAIN out : i < j => BinaryLess(out[i].name, out[j].name)
       /\ \A i \in DOMAIN out :
            out[i].cardCount =
              QuantityOf({k \in DOMAIN cards :
                            /\ cards[k].binder_type = "deck"
                            /\ cards[k].binder_name = out[i].name})

\* C23 witness: a deck with one card in two copies was listed while a binder
\* of the same name holds a card too.
C23_Witness ==
  /\ call.op = "list_decks"
  /\ Len(call.out) = 1
  /\ call.out[1].cardCount = 2
  /\ \E i \in DOMAIN cards :
       cards[i].binder_type = "binder" /\ cards[i].binder_name = call.out[1].name

----------------------------------------------------------------------------
(* the resolver as a whole *)

\* C24: on an empty catalog searchByName returns the empty sequence for every
\* query, limit and scope, listGroups returns the empty sequence and
\* resolveGroup returns NOT_FOUND for every name, none of them with an error.
C24_EmptyCatalog ==
  cards = <<>> =>
    /\ call.op = "search_cards" =>
         call.out.result = <<>> /\ call.out.path # "error"
    /\ call.op = "list_decks" => call.out = <<>>
    /\ call.op = "get_deck_cards" => ~call.out.found

\* C24 witness: after another request on the empty catalog, a search for a
\* non-empty query with a positive limit went through the fallback.
C24_Witness ==
  /\ cards = <<>>
  /\ served >= 1
  /\ call.op = "search_cards"
  /\ call.out.path = "fallback"
  /\ call.query # <<>>
  /\ call.limit >= 1

\* the result of the request being answered is one the operation has for its
\* arguments on the catalog as it is
ResultOfCatalog ==
  /\ call.op = "search_cards" =>
       call.out \in searchCardsByName(cards, call.query, call.limit, call.binderType)
  /\ call.op = "list_decks" => call.out = listDecks(cards)
  /\ call.op = "get_deck_cards" => call.out \in getDeckCards(cards, call.name)

\* C25: the resolver is read-only and stateless: no sequence of searchByName,
\* listGroups and resolveGroup calls changes the catalog, and the result of a
\* call is a function of its arguments and the current catalog, not of the
\* calls before it.
C25_ResolverReadOnly ==
  /\ []ResultOfCatalog
  /\ [][phase # "created" => cards' = cards]_vars

\* C25 witness: a third request is being answered, on a catalog with rows.
C25_Witness ==
  /\ served = MaxCalls
  /\ phase = "responded"
  /\ call.op = "get_deck_cards"
  /\ call.out.found
  /\ call.out.resolvedName # call.name

\* C28: without a scope searchByName never comes back empty on a populated
\* catalog: for every non-empty catalog, query and limit >= 1 it returns at
\* least one summary (the fallback ranks the full name set, with no distance
\* threshold), so an empty result without a scope means an empty catalog.
C28_UnscopedSearchNeverEmpty ==
  (Searched /\ call.binderType = NoType /\ call.limit >= 1) =>
    (call.out.result = <<>> <=> cards = <<>>)

\* C28 witness: a query that is a substring of no name and at least two edits
\* away from every name still got a summary.
C28_Witness ==
  /\ Searched
  /\ call.binderType = NoType
  /\ call.limit >= 1
  /\ call.out.path = "fallback"
  /\ call.out.result # <<>>
  /\ \A i \in DOMAIN cards : Distance(call.query, cards[i].name) >= 2

----------------------------------------------------------------------------
(* the remote client *)

\* C26: remote-client rate limit: over all calls of throttledFetch, calls of
\* several tool requests running side by side included, any two consecutive
\* first-attempt requests are made at least MIN_REQUEST_INTERVAL_MS apart.
C26_FirstAttemptsSpaced ==
  net.prevFirstAt >= 0 => net.firstAt - net.prevFirstAt >= MIN_REQUEST_INTERVAL_MS

\* C29: one call of throttledFetch makes at most two requests; the second
\* only after a first response with status 429 and a backoff of at least
\* RETRY_DELAY_MS, and its response is returned whatever its status; a first
\* response with another status is returned without a retry.
C29_RetryOnceOn429 ==
  \A p \in Fetchers :
    LET f == net.procs[p]
    IN /\ f.requests <= 2
       /\ f.requests = 2 =>
            /\ f.firstStatus = 429
            /\ f.retryAt - f.backoffFrom >= RETRY_DELAY_MS
       /\ f.pc = "done" =>
            IF f.firstStatus = 429
            THEN f.requests = 2 /\ f.result = f.secondStatus
            ELSE f.requests = 1 /\ f.result = f.firstStatus

\* C29 witness: a call whose first response was 429 has made its second
\* request, which was answered 429 again, and returns that response.
C29_Witness ==
  \E p \in Fetchers :
    /\ net.procs[p].pc = "done"
    /\ net.procs[p].requests = 2
    /\ net.procs[p].firstStatus = 429
    /\ net.procs[p].result = 429

----------------------------------------------------------------------------
(* the import pipeline *)

\* the rows parseCollectionCSV is to keep: of the rows that are not blank all
\* but the first (the header), if they have EXPECTED_COLUMNS fields and the
\* second is binder or deck
RowsToKeep(rows) ==
  LET written == SelectSeq(rows, LAMBDA r : notBlank(WriteRow(r)))
      data == IF Len(written) = 0 THEN <<>> ELSE Tail(written)
  IN SelectSeq(data, LAMBDA r : /\ Len(r) = EXPECTED_COLUMNS
                                /\ r[2] \in {<<"binder">>, <<"deck">>})

\* C27: parseCollectionCSV skips the header, every data row that has not 17
\* fields and every row whose scope field is neither binder nor deck, and
\* returns the other rows in input order; so every record of the returned
\* list, and every record of the catalog after the import, has a scope in
\* {binder, deck}.
C27_ImportScopeInvariant ==
  csv.done =>
    LET kept == RowsToKeep(csv.rows)
    IN /\ Len(csv.cards) = Len(kept)
       /\ \A i \in DOMAIN csv.cards :
            /\ csv.cards[i].binder_name = kept[i][1]
            /\ csv.cards[i].binder_type = kept[i][2][1]
            /\ csv.cards[i].name = kept[i][3]
            /\ csv.cards[i].binder_type \in BinderTypes
       /\ phase = "ready" =>
            /\ cards = csv.cards
            /\ \A i \in DOMAIN cards : cards[i].binder_type \in BinderTypes

\* C27 witness: a file with a header, a row of an unknown scope and a deck row
\* with a quoted name was parsed and imported: the deck row alone is in the
\* catalog.
C27_Witness ==
  /\ csv.done
  /\ phase = "ready"
  /\ Len(csv.rows) = 3
  /\ Len(csv.rows[2]) = EXPECTED_COLUMNS
  /\ csv.rows[2][2] = <<"wishlist">>
  /\ Len(cards) = 1
  /\ cards[1].binder_type = "deck"
  /\ COMMA \in Range(cards[1].name)

----------------------------------------------------------------------------
(* the remote lookup tools *)

\* an argument is given when the caller sent a value that is not empty
Given(x) == x # Absent /\ x # ""

\* C30: scryfall_card and scryfall_rulings called with neither scryfallId nor
\* name return a text message and issue no remote request; when scryfallId is
\* given no lookup by name is issued; an error a remote call raises comes
\* back as the text result "... failed: <message>", and no handler throws.
C30_RemoteToolsGuarded ==
  /\ (/\ tool.op \in {"scryfall_card", "scryfall_rulings"}
      /\ ~Given(tool.scryfallId)
      /\ ~Given(tool.name))
       => /\ tool.requests = <<>>
          /\ tool.pc = "returned"
          /\ tool.result.kind = "text"
          /\ tool.error = NoError
  /\ Given(tool.scryfallId) =>
       \A i \in DOMAIN tool.requests : tool.requests[i] # "byName"
  /\ tool.error # NoError =>
       /\ tool.pc = "returned"
       /\ tool.result = [kind |-> "text",
                         text |-> <<failedPrefix(tool.op), tool.error>>]
  /\ tool.result.kind # "thrown"

\* C30 witness: scryfall_rulings was called with a name alone, the name was
\* resolved, and the request for the rulings failed: the handler returned the
\* text "Rulings lookup failed: ...".
C30_Witness ==
  /\ tool.op = "scryfall_rulings"
  /\ tool.requests = <<"byName", "rulings">>
  /\ tool.error = "Scryfall API error: 404"
  /\ tool.result.kind = "text"
  /\ tool.result.text[1] = "Rulings lookup failed: "

====
